---------------------------- MODULE Spec2Model ----------------------------
(***************************************************************************)
(* A model of the WCC pipeline of my_functions/wcc.py:                     *)
(*   tree_statistics                      (specification Spec)             *)
(*   calculate_tariff_numbers_and_volume  (specification SpecVolume)       *)
(*   calculate_biomass                    (specification SpecBiomass)      *)
(*   calculate_carbon_and_co2_for_trees_and_saplings (SpecCarbon)          *)
(*   calculate_and_print_species_biomass_and_carbon, one species of its    *)
(*   loop                                 (specification SpecChain)        *)
(*                                                                         *)
(* Numbers.  The code computes in floats; the model computes in exact      *)
(* rationals [num, den] (Rat), which agree with the floats on the input    *)
(* sets enumerated here.  A missing mean (the mean of an empty pandas      *)
(* selection) is NaN.  Irrational values (pi * (qmd/200)^2, the stem       *)
(* volume built from it) are kept as the expression that defines them.     *)
(*                                                                         *)
(* Species names.  A name is [lc, up]: its lower-cased text and the set of *)
(* positions written in upper case, so that 'Scots pine' and 'scots pine'  *)
(* are different dictionary keys and str.lower() clears the set.           *)
(***************************************************************************)
EXTENDS Integers, Naturals, Sequences, FiniteSets, TLC

VARIABLES
    pc,                     \* position in the function being run
    \* ---- tree_statistics: arguments
    df, percentages, planting_mix, year,
    \* ---- tree_statistics: locals
    number_of_trees, number_of_saplings, number_of_largetrees,
    species_distribution,
    remaining_trees, remaining_saplings, remaining_large_trees,
    index,
    \* ---- tree_statistics: result; argument of the later functions
    tree_stats,
    \* ---- calculate_tariff_numbers_and_volume
    species, tariff_number, multiplication_factor, volume_stats,
    \* ---- calculate_biomass: per-tree locals
    stem_biomass, crown_biomass, root_biomass,
    \* ---- calculate_carbon_and_co2_for_trees_and_saplings
    biomass_stats, num_saplings, mean_sapling_height,
    is_broadleaf, sapling_carbon_content, carbon_co2_stats,
    \* ---- the exception a function ended with, or None
    raised,
    \* ---- calculate_and_print_species_biomass_and_carbon: the call of its
    \* loop body that was made last, or None outside that function
    chain_pc

vars == << pc, df, percentages, planting_mix, year,
           number_of_trees, number_of_saplings, number_of_largetrees,
           species_distribution,
           remaining_trees, remaining_saplings, remaining_large_trees, index,
           tree_stats,
           species, tariff_number, multiplication_factor, volume_stats,
           stem_biomass, crown_biomass, root_biomass,
           biomass_stats, num_saplings, mean_sapling_height,
           is_broadleaf, sapling_carbon_content, carbon_co2_stats,
           raised, chain_pc >>

statsVars == << df, percentages, planting_mix, year,
                number_of_trees, number_of_saplings, number_of_largetrees,
                species_distribution,
                remaining_trees, remaining_saplings, remaining_large_trees,
                index >>

volumeVars == << species, tariff_number, multiplication_factor, volume_stats >>

biomassVars == << stem_biomass, crown_biomass, root_biomass >>

carbonVars == << biomass_stats, num_saplings, mean_sapling_height,
                 is_broadleaf, sapling_carbon_content, carbon_co2_stats >>

None == "None"

\* float('nan'): a number with no value, written as a rational with denominator 0
NaN == [num |-> 0, den |-> 0]

IsNaN(x) == x.den = 0

\* The exceptions raised, by their messages.
SpeciesNotFound  == "ValueError: Species not found"
CannotConvertNaN == "ValueError: cannot convert float NaN to integer"

-----------------------------------------------------------------------------
(* Exact rationals.                                                        *)

Abs(n) == IF n < 0 THEN -n ELSE n

RECURSIVE GCD(_, _)
GCD(a, b) == IF b = 0 THEN a ELSE GCD(b, a % b)

Rat(n, d) ==
    LET g == GCD(Abs(n), d)
    IN  IF n = 0 THEN [num |-> 0, den |-> 1]
                 ELSE [num |-> n \div g, den |-> d \div g]

\* Products and sums, with the common factors taken out before multiplying.
RMul(a, b) ==
    LET g1 == GCD(Abs(a.num), b.den)
        g2 == GCD(Abs(b.num), a.den)
    IN  Rat((a.num \div g1) * (b.num \div g2), (a.den \div g2) * (b.den \div g1))

RAdd(a, b) ==
    LET g == GCD(a.den, b.den)
    IN  Rat(a.num * (b.den \div g) + b.num * (a.den \div g), (a.den \div g) * b.den)

RLe(a, b)  == a.num * b.den <= b.num * a.den
RLt(a, b)  == a.num * b.den <  b.num * a.den
RInt(n)    == [num |-> n, den |-> 1]

RECURSIVE SumSeq(_)
SumSeq(s) == IF s = << >> THEN 0 ELSE Head(s) + SumSeq(Tail(s))

\* The largest r with r * r <= n, for 0 <= n < hi * hi.
RECURSIVE ISqrtIn(_, _, _)
ISqrtIn(n, lo, hi) ==
    IF hi - lo <= 1 THEN lo
    ELSE LET mid == (lo + hi) \div 2
         IN  IF mid * mid <= n THEN ISqrtIn(n, mid, hi) ELSE ISqrtIn(n, lo, mid)

-----------------------------------------------------------------------------
(* Species names.                                                          *)

Name(text, upper) == [lc |-> text, up |-> upper]

\* str.lower()
Lower(name) == [lc |-> name.lc, up |-> {}]


-----------------------------------------------------------------------------
(* tree_statistics: the inputs enumerated.                                 *)

\* The largest inventory enumerated (rows of the DataFrame).
MaxRows == 3

\* Rows of the inventory: the stratum ('Mixed Wood', 1) with diameters on both
\* sides of the thresholds 7 and 50, and rows of two other strata.
RowOptions ==
    << [Type |-> "Mixed Wood", Year |-> 1, DBH |-> 5,  top_height |-> 2],
       [Type |-> "Mixed Wood", Year |-> 1, DBH |-> 7,  top_height |-> 3],
       [Type |-> "Mixed Wood", Year |-> 1, DBH |-> 8,  top_height |-> 10],
       [Type |-> "Mixed Wood", Year |-> 1, DBH |-> 9,  top_height |-> 11],
       [Type |-> "Mixed Wood", Year |-> 1, DBH |-> 50, top_height |-> 22],
       [Type |-> "Mixed Wood", Year |-> 1, DBH |-> 60, top_height |-> 25],
       [Type |-> "Mixed Wood", Year |-> 2, DBH |-> 5,  top_height |-> 2],
       [Type |-> "Mixed Wood", Year |-> 2, DBH |-> 8,  top_height |-> 10],
       [Type |-> "Mixed Wood", Year |-> 2, DBH |-> 60, top_height |-> 25],
       [Type |-> "Broadleaf",  Year |-> 1, DBH |-> 5,  top_height |-> 2],
       [Type |-> "Broadleaf",  Year |-> 1, DBH |-> 8,  top_height |-> 10],
       [Type |-> "Broadleaf",  Year |-> 1, DBH |-> 60, top_height |-> 25] >>

\* Row order changes no count and no mean: one DataFrame per multiset of rows.
DataFrames ==
    UNION { { [i \in 1..n |-> RowOptions[f[i]]] :
                f \in { g \in [1..n -> 1..Len(RowOptions)] :
                          \A i \in 1..n : \A j \in 1..n : i < j => g[i] <= g[j] } } :
            n \in 0..MaxRows }

\* The keys of the percentages dict, in insertion order.
SpeciesNames == << Name("oak", {}), Name("scots pine", {1}), Name("sycamore", {}) >>

\* The proportions a species may be given (0, 1/3, 1/2, 1); a mapping need not
\* sum to 1.
Proportions == { [num |-> 0, den |-> 1], [num |-> 1, den |-> 3],
                 [num |-> 1, den |-> 2], [num |-> 1, den |-> 1] }

\* A percentages dict: a sequence of (species, percentage) items, in iteration
\* order.
PercentageMappings ==
    UNION { { [i \in 1..k |-> [species |-> SpeciesNames[i], percentage |-> p[i]]] :
                p \in [1..k -> Proportions] } :
            k \in 0..Len(SpeciesNames) }

-----------------------------------------------------------------------------
(* tree_statistics: the code.                                              *)

\* FilterTrees with the threshold made inclusive (DBH >= 7).
FilterTreesInclusive(d, mix, yr) ==
    SelectSeq(d, LAMBDA r : r.Type = mix /\ r.Year = yr /\ r.DBH >= 7)

\* df[(Type == planting_mix) & (Year == year) & (DBH > 7)]
FilterTrees(d, mix, yr) ==
    SelectSeq(d, LAMBDA r : r.Type = mix /\ r.Year = yr /\ r.DBH > 7)

\* df[(Type == planting_mix) & (Year == year) & (DBH <= 7)]
FilterSaplings(d, mix, yr) ==
    SelectSeq(d, LAMBDA r : r.Type = mix /\ r.Year = yr /\ r.DBH <= 7)

\* df[(Type == planting_mix) & (Year == year) & (DBH > 50)]
FilterLargeTrees(d, mix, yr) ==
    SelectSeq(d, LAMBDA r : r.Type = mix /\ r.Year = yr /\ r.DBH > 50)

\* IntOfProduct rounding to the nearest integer: round(n * percentage).
IntOfProductRounded(n, percentage) ==
    (2 * n * percentage.num + percentage.den) \div (2 * percentage.den)

\* int(n * percentage), for n >= 0 and percentage >= 0
IntOfProduct(n, percentage) == (n * percentage.num) \div percentage.den

\* list(percentages.keys())
SpeciesList(pcts) == [i \in 1..Len(pcts) |-> pcts[i].species]

\* The loop 'for species, percentage in percentages.items()' (lines 54-67).
InitialAllocation(pcts, nt, ns, nl) ==
    [s \in { pcts[i].species : i \in 1..Len(pcts) } |->
        LET i == CHOOSE j \in 1..Len(pcts) : pcts[j].species = s
        IN  [trees      |-> IntOfProduct(nt, pcts[i].percentage),
             saplings   |-> IntOfProduct(ns, pcts[i].percentage),
             largetrees |-> IntOfProduct(nl, pcts[i].percentage)]]

\* total_<class>_allocated after the loop of lines 54-67
TotalAllocated(sd, pcts, class) ==
    SumSeq([i \in 1..Len(pcts) |-> sd[pcts[i].species][class]])

\* GiveOne starting the cycle one species late: species_list[(index + 1) % len].
GiveOneShifted(sd, pcts, idx, class) ==
    LET s == SpeciesList(pcts)[((idx + 1) % Len(pcts)) + 1]
    IN  [sd EXCEPT ![s][class] = @ + 1]

\* species_distribution[species_list[index % len(species_list)]][class] += 1
GiveOne(sd, pcts, idx, class) ==
    LET s == SpeciesList(pcts)[(idx % Len(pcts)) + 1]
    IN  [sd EXCEPT ![s][class] = @ + 1]

\* series.mean(): NaN on an empty selection
Mean(values) ==
    IF values = << >> THEN NaN ELSE Rat(SumSeq(values), Len(values))

Column(rows, col) == [i \in 1..Len(rows) |-> rows[i][col]]

\* RoundedSqrtTenths cutting the digits after the first decimal instead of
\* rounding.
TruncatedSqrtTenths(sumsq, n) == ISqrtIn((100 * sumsq) \div n, 0, 2000)

\* round(np.sqrt(mean of squares), 1), in tenths: the integer nearest to
\* 10 * sqrt(sumsq / n), a tie going to the even one (numpy's rint).
RoundedSqrtTenths(sumsq, n) ==
    LET N == (400 * sumsq) \div n
        r == ISqrtIn(N, 0, 2000)
        tie == (400 * sumsq = n * r * r) /\ (r % 2 = 1)
        down == (r - 1) \div 2
    IN  IF tie THEN (IF down % 2 = 0 THEN down ELSE down + 1)
               ELSE (r + 1) \div 2

\* lines 111-114
QuadraticMeanDbh(trees) ==
    IF trees = << >> THEN NaN
    ELSE Rat(RoundedSqrtTenths(
                 SumSeq([i \in 1..Len(trees) |-> trees[i].DBH * trees[i].DBH]),
                 Len(trees)), 10)

\* np.pi * (quadratic_mean_dbh / 200)**2, kept as the expression
MeanBasalArea(qmd) ==
    IF IsNaN(qmd) THEN NaN ELSE [pi_times_square_of |-> RMul(qmd, Rat(1, 200))]

\* Lines 28-75: the three selections, their sizes, the floor allocation and
\* what is left to distribute.
Allocate ==
    /\ pc = "tree_statistics"
    /\ pc' = "distribute_trees"
    /\ LET nt == Len(FilterTrees(df, planting_mix, year))
           ns == Len(FilterSaplings(df, planting_mix, year))
           nl == Len(FilterLargeTrees(df, planting_mix, year))
           sd == InitialAllocation(percentages, nt, ns, nl)
       IN  /\ number_of_trees' = nt
           /\ number_of_saplings' = ns
           /\ number_of_largetrees' = nl
           /\ species_distribution' = sd
           /\ remaining_trees' = nt - TotalAllocated(sd, percentages, "trees")
           /\ remaining_saplings' = ns - TotalAllocated(sd, percentages, "saplings")
           /\ remaining_large_trees' = nl - TotalAllocated(sd, percentages, "largetrees")
    /\ index' = 0
    /\ UNCHANGED << df, percentages, planting_mix, year, tree_stats, raised >>
    /\ UNCHANGED << volumeVars, biomassVars, carbonVars, chain_pc >>

\* One pass of 'while remaining_trees > 0' (lines 77-80); index % 0 raises.
DistributeTrees ==
    /\ pc = "distribute_trees"
    /\ remaining_trees > 0
    /\ IF Len(percentages) = 0
       THEN /\ raised' = "ZeroDivisionError"
            /\ pc' = "raised"
            /\ UNCHANGED << species_distribution, remaining_trees, index >>
       ELSE /\ species_distribution' =
                    GiveOne(species_distribution, percentages, index, "trees")
            /\ remaining_trees' = remaining_trees - 1
            /\ index' = index + 1
            /\ UNCHANGED << pc, raised >>
    /\ UNCHANGED << df, percentages, planting_mix, year, number_of_trees,
                    number_of_saplings, number_of_largetrees,
                    remaining_saplings, remaining_large_trees, tree_stats >>
    /\ UNCHANGED << volumeVars, biomassVars, carbonVars, chain_pc >>

\* The loop of lines 77-80 ends; index = 0 (line 82).
TreesDistributed ==
    /\ pc = "distribute_trees"
    /\ ~(remaining_trees > 0)
    /\ index' = 0
    /\ pc' = "distribute_saplings"
    /\ UNCHANGED << df, percentages, planting_mix, year, number_of_trees,
                    number_of_saplings, number_of_largetrees, species_distribution,
                    remaining_trees, remaining_saplings, remaining_large_trees,
                    tree_stats, raised >>
    /\ UNCHANGED << volumeVars, biomassVars, carbonVars, chain_pc >>

\* DistributeSaplings without 'remaining_saplings -= 1': a pass that gives a
\* sapling and leaves the counter as it is.
DistributeSaplingsWithoutDecrement ==
    /\ pc = "distribute_saplings"
    /\ remaining_saplings > 0
    /\ IF Len(percentages) = 0
       THEN /\ raised' = "ZeroDivisionError"
            /\ pc' = "raised"
            /\ UNCHANGED << species_distribution, index >>
       ELSE /\ species_distribution' =
                    GiveOne(species_distribution, percentages, index, "saplings")
            /\ index' = index + 1
            /\ UNCHANGED << pc, raised >>
    /\ UNCHANGED << df, percentages, planting_mix, year, number_of_trees,
                    number_of_saplings, number_of_largetrees, remaining_saplings,
                    remaining_trees, remaining_large_trees, tree_stats >>
    /\ UNCHANGED << volumeVars, biomassVars, carbonVars, chain_pc >>

\* One pass of 'while remaining_saplings > 0' (lines 83-86).
DistributeSaplings ==
    /\ pc = "distribute_saplings"
    /\ remaining_saplings > 0
    /\ IF Len(percentages) = 0
       THEN /\ raised' = "ZeroDivisionError"
            /\ pc' = "raised"
            /\ UNCHANGED << species_distribution, remaining_saplings, index >>
       ELSE /\ species_distribution' =
                    GiveOne(species_distribution, percentages, index, "saplings")
            /\ remaining_saplings' = remaining_saplings - 1
            /\ index' = index + 1
            /\ UNCHANGED << pc, raised >>
    /\ UNCHANGED << df, percentages, planting_mix, year, number_of_trees,
                    number_of_saplings, number_of_largetrees,
                    remaining_trees, remaining_large_trees, tree_stats >>
    /\ UNCHANGED << volumeVars, biomassVars, carbonVars, chain_pc >>

\* The loop of lines 83-86 ends; index = 0 (line 88).
SaplingsDistributed ==
    /\ pc = "distribute_saplings"
    /\ ~(remaining_saplings > 0)
    /\ index' = 0
    /\ pc' = "distribute_largetrees"
    /\ UNCHANGED << df, percentages, planting_mix, year, number_of_trees,
                    number_of_saplings, number_of_largetrees, species_distribution,
                    remaining_trees, remaining_saplings, remaining_large_trees,
                    tree_stats, raised >>
    /\ UNCHANGED << volumeVars, biomassVars, carbonVars, chain_pc >>

\* One pass of 'while remaining_large_trees > 0' (lines 89-92).
DistributeLargeTrees ==
    /\ pc = "distribute_largetrees"
    /\ remaining_large_trees > 0
    /\ IF Len(percentages) = 0
       THEN /\ raised' = "ZeroDivisionError"
            /\ pc' = "raised"
            /\ UNCHANGED << species_distribution, remaining_large_trees, index >>
       ELSE /\ species_distribution' =
                    GiveOne(species_distribution, percentages, index, "largetrees")
            /\ remaining_large_trees' = remaining_large_trees - 1
            /\ index' = index + 1
            /\ UNCHANGED << pc, raised >>
    /\ UNCHANGED << df, percentages, planting_mix, year, number_of_trees,
                    number_of_saplings, number_of_largetrees,
                    remaining_trees, remaining_saplings, tree_stats >>
    /\ UNCHANGED << volumeVars, biomassVars, carbonVars, chain_pc >>

\* Lines 94-133: the loop of lines 89-92 has ended; the means, the quadratic
\* mean DBH, the basal area and the returned dict.
Statistics ==
    /\ pc = "distribute_largetrees"
    /\ ~(remaining_large_trees > 0)
    /\ pc' = "done"
    /\ LET trees    == FilterTrees(df, planting_mix, year)
           saplings == FilterSaplings(df, planting_mix, year)
           large    == FilterLargeTrees(df, planting_mix, year)
           qmd      == QuadraticMeanDbh(trees)
       IN  tree_stats' =
             [number_of_trees       |-> number_of_trees,
              number_of_saplings    |-> number_of_saplings,
              number_of_largetrees  |-> number_of_largetrees,
              mean_tree_height      |-> Mean(Column(trees, "top_height")),
              mean_dbh_trees        |-> Mean(Column(trees, "DBH")),
              mean_sapling_height   |-> Mean(Column(saplings, "top_height")),
              mean_dbh_saplings     |-> Mean(Column(saplings, "DBH")),
              mean_largetree_height |-> IF number_of_largetrees > 0
                                        THEN Mean(Column(large, "top_height"))
                                        ELSE None,
              mean_dbh_largetrees   |-> IF number_of_largetrees > 0
                                        THEN Mean(Column(large, "DBH"))
                                        ELSE None,
              quadratic_mean_dbh    |-> qmd,
              mean_basal_area       |-> MeanBasalArea(qmd),
              species_distribution  |-> species_distribution]
    /\ UNCHANGED << statsVars, raised >>
    /\ UNCHANGED << volumeVars, biomassVars, carbonVars, chain_pc >>

Init ==
    /\ pc = "tree_statistics"
    /\ df \in DataFrames
    /\ percentages \in PercentageMappings
    /\ planting_mix = "Mixed Wood"
    /\ year = 1
    /\ number_of_trees = None
    /\ number_of_saplings = None
    /\ number_of_largetrees = None
    /\ species_distribution = None
    /\ remaining_trees = None
    /\ remaining_saplings = None
    /\ remaining_large_trees = None
    /\ index = None
    /\ tree_stats = None
    /\ species = None
    /\ tariff_number = None
    /\ multiplication_factor = None
    /\ volume_stats = None
    /\ biomass_stats = None
    /\ num_saplings = None
    /\ mean_sapling_height = None
    /\ is_broadleaf = None
    /\ sapling_carbon_content = None
    /\ carbon_co2_stats = None
    /\ raised = None
    /\ chain_pc = None
    /\ stem_biomass = None
    /\ crown_biomass = None
    /\ root_biomass = None

Next ==
    \/ Allocate
    \/ DistributeTrees
    \/ TreesDistributed
    \/ DistributeSaplings
    \/ SaplingsDistributed
    \/ DistributeLargeTrees
    \/ Statistics

Spec == Init /\ [][Next]_vars


-----------------------------------------------------------------------------
(* Properties of tree_statistics (specification Spec).                     *)

Classes == { "trees", "saplings", "largetrees" }

\* tree_statistics has returned.
Returned == pc = "done"

ClassCount(class) ==
    CASE class = "trees"      -> number_of_trees
      [] class = "saplings"   -> number_of_saplings
      [] class = "largetrees" -> number_of_largetrees

\* The sum over the species of the percentages mapping of the allocated count.
AllocatedSum(class) ==
    SumSeq([i \in 1..Len(percentages) |->
                species_distribution[percentages[i].species][class]])

RECURSIVE RSum(_)
RSum(s) == IF s = << >> THEN RInt(0) ELSE RAdd(Head(s), RSum(Tail(s)))

SumOfProportions ==
    RSum([i \in 1..Len(percentages) |-> percentages[i].percentage])

\* C1 as stated: whenever tree_statistics returns, for each of the three
\* classes the allocated counts of all species sum to the class count, whatever
\* the percentages mapping.
C1_AllocationSumsExactly_AnyMapping ==
    Returned => \A class \in Classes : AllocatedSum(class) = ClassCount(class)

\* C1 amended: whenever tree_statistics returns for a percentages mapping whose
\* proportions sum to at most 1, for each of the three classes the allocated
\* counts of all species sum to the class count.
C1_AllocationSumsExactly ==
    (Returned /\ RLe(SumOfProportions, RInt(1)))
        => \A class \in Classes : AllocatedSum(class) = ClassCount(class)

\* C1 witness: three trees, two species at 1/3 each: floors 1 + 1 and one unit
\* distributed, the function has returned.
C1_Witness ==
    /\ Returned
    /\ number_of_trees = 3
    /\ Len(percentages) = 2
    /\ \A i \in 1..2 : percentages[i].percentage = [num |-> 1, den |-> 3]
    /\ species_distribution[percentages[1].species].trees = 2
    /\ species_distribution[percentages[2].species].trees = 1

\* The rows of the target stratum.
StratumRows ==
    { i \in 1..Len(df) : df[i].Type = planting_mix /\ df[i].Year = year }

\* The inventory of the round-trip scenario: DBH 5, 8 and 60 in the stratum.
ScenarioRows == << RowOptions[1], RowOptions[3], RowOptions[6] >>

OakOnly == << [species |-> Name("oak", {}), percentage |-> [num |-> 1, den |-> 1]] >>

\* C2: once the rows are classified, the sapling count is the number of stratum
\* rows with DBH <= 7, the tree count the number with DBH > 7 (each stratum row
\* in exactly one of the two), the large-tree count the number of stratum rows
\* with DBH > 50 (at most the tree count), rows of other strata are counted
\* nowhere; and DBH [5, 8, 60] with oak at 1.0 returns counts 1, 2, 1, all oak's.
C2_ClassificationByThreshold ==
    /\ pc # "tree_statistics" =>
         /\ number_of_saplings = Cardinality({ i \in StratumRows : df[i].DBH <= 7 })
         /\ number_of_trees = Cardinality({ i \in StratumRows : df[i].DBH > 7 })
         /\ number_of_largetrees = Cardinality({ i \in StratumRows : df[i].DBH > 50 })
         /\ number_of_trees + number_of_saplings = Cardinality(StratumRows)
         /\ number_of_largetrees <= number_of_trees
    /\ (Returned /\ df = ScenarioRows /\ percentages = OakOnly) =>
         /\ tree_stats.number_of_saplings = 1
         /\ tree_stats.number_of_trees = 2
         /\ tree_stats.number_of_largetrees = 1
         /\ tree_stats.species_distribution[Name("oak", {})] =
                [trees |-> 2, saplings |-> 1, largetrees |-> 1]

\* C2 witness: the round-trip scenario has been run to its return.
C2_Witness ==
    Returned /\ df = ScenarioRows /\ percentages = OakOnly

\* C9 as stated: for a stratum with at least one tree, the returned
\* quadratic_mean_dbh (rounded to 0.1 cm) is at least the returned
\* mean_dbh_trees.
C9_QuadraticMeanAtLeastMean ==
    (Returned /\ number_of_trees > 0)
        => RLe(tree_stats.mean_dbh_trees, tree_stats.quadratic_mean_dbh)

\* C9 amended: for a stratum with at least one tree, the returned
\* quadratic_mean_dbh is at most 0.05 cm (half the rounding step) below the
\* returned mean_dbh_trees.
C9_QuadraticMeanWithinRounding ==
    (Returned /\ number_of_trees > 0)
        => RLe(tree_stats.mean_dbh_trees,
               RAdd(tree_stats.quadratic_mean_dbh, Rat(1, 20)))

\* C9 witness: trees of 8, 8 and 9 cm: mean 25/3 = 8.33.., quadratic mean
\* 8.3467.. returned as 8.3.
C9_Witness ==
    /\ Returned
    /\ number_of_trees = 3
    /\ tree_stats.mean_dbh_trees = [num |-> 25, den |-> 3]
    /\ tree_stats.quadratic_mean_dbh = [num |-> 83, den |-> 10]

\* floor(c * p), from its definition: the f with f <= c * p < f + 1.
FloorOfProduct(c, p) ==
    CHOOSE f \in 0..c : f * p.den <= c * p.num /\ c * p.num < (f + 1) * p.den

\* c minus the sum of the floors.
RemainingAfterFloors(class) ==
    ClassCount(class)
      - SumSeq([i \in 1..Len(percentages) |->
                    FloorOfProduct(ClassCount(class), percentages[i].percentage)])

\* The number of j in 0..remaining-1 with j mod k = i, for the species at
\* position i (counted from 0).
ExtrasDue(class, i) ==
    Cardinality({ j \in 0..(RemainingAfterFloors(class) - 1) :
                    j % Len(percentages) = i })

\* What the species at position i (from 0) got beyond its floor.
ExtrasGot(class, i) ==
    species_distribution[percentages[i + 1].species][class]
      - FloorOfProduct(ClassCount(class), percentages[i + 1].percentage)

\* C10: when tree_statistics returns, each species' count in each class is its
\* floor plus the number of j < remaining with j mod k = its position; extras of
\* two species differ by at most one and an earlier species has no fewer than a
\* later one; and a loop whose class count is 0 performs no step and leaves 0
\* for every species.
C10_RemainderDistributionRule ==
    /\ Returned =>
         \A class \in Classes :
            /\ \A i \in 0..(Len(percentages) - 1) :
                  ExtrasGot(class, i) = ExtrasDue(class, i)
            /\ \A i \in 0..(Len(percentages) - 1) :
                  \A j \in i..(Len(percentages) - 1) :
                     /\ ExtrasGot(class, i) >= ExtrasGot(class, j)
                     /\ ExtrasGot(class, i) - ExtrasGot(class, j) <= 1
    /\ \A loop \in { <<"distribute_trees", "trees", remaining_trees>>,
                     <<"distribute_saplings", "saplings", remaining_saplings>>,
                     <<"distribute_largetrees", "largetrees", remaining_large_trees>> } :
         (pc = loop[1] /\ ClassCount(loop[2]) = 0) =>
            /\ index = 0
            /\ loop[3] = 0
            /\ \A i \in 1..Len(percentages) :
                  species_distribution[percentages[i].species][loop[2]] = 0

\* C10 witness: three trees, two species at proportion 0: three units are
\* distributed, the cycle wraps round, the first species ends with 2 and the
\* second with 1.
C10_Witness ==
    /\ Returned
    /\ number_of_trees = 3
    /\ Len(percentages) = 2
    /\ \A i \in 1..2 : percentages[i].percentage = [num |-> 0, den |-> 1]
    /\ species_distribution[percentages[1].species].trees = 2
    /\ species_distribution[percentages[2].species].trees = 1


-----------------------------------------------------------------------------
(* calculate_tariff_numbers_and_volume: the tables (coefficients times      *)
(* 10^7).                                                                   *)

\* The coefficients are written with at most 7 decimals.
CoefficientScale == 10000000

\* broadleaf_constants: species -> (a1, a2, a3, a4)
broadleaf_constants ==
    Name("oak", {}) :> << 58830000, 20123000, -54780, -57397 >> @@
    Name("beech", {}) :> << 74849000, 19262000, -37881, -82745 >> @@
    Name("sycamore", {}) :> << 97613000, 15867000, -569660, -33867 >> @@
    Name("ash", {}) :> << 91605000, 20256000, -668420, -44172 >> @@
    Name("birch", {}) :> << 56237000, 22380000, 871700, -332620 >> @@
    Name("elm", {}) :> << 62887000, 16995000, 285120, -69294 >> @@
    Name("poplar", {}) :> << 109062500, 10532700, 0, 0 >>

\* conifer_constants: species -> (a1, a2, a3)
conifer_constants ==
    Name("scots pine", {1}) :> << 98173870, 11774860, -1141740 >> @@
    Name("corsican pine", {1}) :> << 50708420, 17540530, -1938340 >> @@
    Name("lodgepole pine", {}) :> << 88552920, 19516430, -6896190 >> @@
    Name("sitka spruce", {1}) :> << 82920300, 17711730, -4165090 >> @@
    Name("norway spruce", {1}) :> << 99393110, 19856970, -6506250 >> @@
    Name("european larch", {1}) :> << 55621670, 19084730, -4265670 >> @@
    Name("japanese larch", {1}) :> << 84781270, 17887680, -4498160 >> @@
    Name("douglas fir", {1}) :> << 103974800, 14773130, -3256530 >> @@
    Name("western hemlock", {}) :> << 87625110, 19592300, -5862750 >> @@
    Name("western red cedar", {}) :> << 106373120, 17353830, -6305510 >> @@
    Name("grand fir", {}) :> << 65656300, 20434900, -5915500 >> @@
    Name("noble fir", {}) :> << 70285480, 19300160, -3738080 >>

\* The bands of the if/elif chain of lines 214-265, in the order tested:
\* (lower bound of the mean DBH in cm, multiplication factor in hundredths).
FactorBands ==
    << <<33, 100>>, <<32, 101>>, <<31, 101>>, <<30, 101>>, <<29, 101>>,
       <<28, 101>>, <<27, 101>>, <<26, 101>>, <<25, 101>>, <<24, 101>>,
       <<23, 101>>, <<22, 101>>, <<21, 102>>, <<20, 102>>, <<19, 102>>,
       <<18, 102>>, <<17, 103>>, <<16, 103>>, <<15, 104>>, <<14, 105>>,
       <<13, 106>>, <<12, 107>>, <<11, 109>>, <<10, 112>>, <<9, 115>>,
       <<8, 119>> >>

\* FactorBands with the factors of two bands exchanged (1.12 at 11 cm, 1.09 at
\* 10 cm).
FactorBandsSwapped ==
    [i \in 1..Len(FactorBands) |->
        IF FactorBands[i][1] = 11 THEN <<11, 112>>
        ELSE IF FactorBands[i][1] = 10 THEN <<10, 109>>
        ELSE FactorBands[i]]

\* The factor of the else branch (line 267).
FactorBelowBands == 130

-----------------------------------------------------------------------------
(* calculate_tariff_numbers_and_volume: the code.                          *)

\* '>=' on floats: False when either side is NaN.
FloatGe(x, y) == ~IsNaN(x) /\ ~IsNaN(y) /\ RLe(y, x)

\* The first band of the chain whose test 'mean_dbh_trees >= bound' holds.
RECURSIVE FactorFrom(_, _, _)
FactorFrom(bands, i, dbh) ==
    IF i > Len(bands) THEN Rat(FactorBelowBands, 100)
    ELSE IF FloatGe(dbh, RInt(bands[i][1])) THEN Rat(bands[i][2], 100)
    ELSE FactorFrom(bands, i + 1, dbh)

\* MultiplicationFactor read from the table with two factors exchanged.
MultiplicationFactorSwapped(dbh) == FactorFrom(FactorBandsSwapped, 1, dbh)

\* Lines 212-267: the multiplication factor for a mean DBH.
MultiplicationFactor(dbh) == FactorFrom(FactorBands, 1, dbh)

\* a1 + a2*height + a3*dbh (+ a4*dbh*height), for coefficients c times 10^7.
Regression(c, height, dbh) ==
    LET a4 == IF Len(c) = 4 THEN c[4] ELSE 0
    IN  Rat(  c[1] * height.den * dbh.den
            + c[2] * height.num * dbh.den
            + c[3] * dbh.num * height.den
            + a4 * dbh.num * height.num,
            CoefficientScale * height.den * dbh.den)

KnownToTariffTables(sp) ==
    sp \in DOMAIN conifer_constants \/ sp \in DOMAIN broadleaf_constants

\* TariffRegression falling back to the oak coefficients for a species of
\* neither table.
TariffRegressionWithDefault(sp, height, dbh) ==
    IF sp \in DOMAIN conifer_constants
    THEN [raised |-> None, value |-> Regression(conifer_constants[sp], height, dbh)]
    ELSE IF sp \in DOMAIN broadleaf_constants
    THEN [raised |-> None, value |-> Regression(broadleaf_constants[sp], height, dbh)]
    ELSE [raised |-> None,
          value |-> Regression(broadleaf_constants[Name("oak", {})], height, dbh)]

\* Lines 181-193: the tariff number before flooring, or the ValueError of a
\* species of neither table.  With a NaN mean the value is NaN.
TariffRegression(sp, height, dbh) ==
    IF ~KnownToTariffTables(sp)
    THEN [raised |-> SpeciesNotFound, value |-> NaN]
    ELSE IF IsNaN(height) \/ IsNaN(dbh)
    THEN [raised |-> None, value |-> NaN]
    ELSE IF sp \in DOMAIN conifer_constants
    THEN [raised |-> None, value |-> Regression(conifer_constants[sp], height, dbh)]
    ELSE [raised |-> None, value |-> Regression(broadleaf_constants[sp], height, dbh)]

\* MathFloor cutting toward zero: int(x).
MathTrunc(x) ==
    IF x.num < 0 THEN -((-x.num) \div x.den) ELSE x.num \div x.den

\* math.floor(x) for a finite x: the largest integer not greater than x.
MathFloor(x) == x.num \div x.den

\* A value the model keeps as an expression: coeff times the quantity 'unit'.
Scaled(unit, coeff) == [unit |-> unit, coeff |-> coeff]

\* Lines 200-207: a1 + a2 * mean_basal_area with a2 = 0.315049301 *
\* (tariff_number - 0.138763302) and a1 = 0.0360541 * tariff_number -
\* a2 * 0.118288, kept as the expression.
MeanTreeVolume(t, basal_area) ==
    Scaled([volume_at_tariff |-> t, basal_area |-> basal_area], RInt(1))

\* The whole function, lines 147-278.
CalculateTariffNumbersAndVolume ==
    /\ pc = "calculate_tariff_numbers_and_volume"
    /\ LET regression == TariffRegression(species, tree_stats.mean_tree_height,
                                          tree_stats.mean_dbh_trees)
       IN  IF regression.raised # None
           THEN \* line 193
                /\ raised' = regression.raised
                /\ pc' = "raised"
                /\ UNCHANGED << tariff_number, multiplication_factor, volume_stats >>
           ELSE IF IsNaN(regression.value)
           THEN \* line 197: math.floor(nan)
                /\ raised' = CannotConvertNaN
                /\ pc' = "raised"
                /\ UNCHANGED << tariff_number, multiplication_factor, volume_stats >>
           ELSE IF species \notin DOMAIN tree_stats.species_distribution
           THEN \* line 210: species_distribution[species]
                /\ raised' = "KeyError"
                /\ pc' = "raised"
                /\ tariff_number' = MathFloor(regression.value)
                /\ UNCHANGED << multiplication_factor, volume_stats >>
           ELSE LET t      == MathFloor(regression.value)
                    mtv    == MeanTreeVolume(t, tree_stats.mean_basal_area)
                    trees  == tree_stats.species_distribution[species].trees
                    factor == MultiplicationFactor(tree_stats.mean_dbh_trees)
                IN  /\ tariff_number' = t
                    /\ multiplication_factor' = factor
                    /\ volume_stats' =
                         [tariff_number     |-> t,
                          mean_tree_volume  |-> mtv,
                          total_stem_volume |->
                              Scaled(mtv.unit, RMul(RMul(mtv.coeff, RInt(trees)), factor))]
                    /\ pc' = "done"
                    /\ UNCHANGED raised
    /\ UNCHANGED << species, tree_stats, statsVars, biomassVars, carbonVars, chain_pc >>

-----------------------------------------------------------------------------
(* calculate_tariff_numbers_and_volume: the inputs enumerated.             *)

\* The largest mean tree height (m), mean DBH (cm) and species tree count.
MaxMeanHeight == 12
MaxMeanDbh == 35
MaxSpeciesTrees == 2

\* Species passed to the function: every key of the two tables, and names of
\* neither table (unknown names, other spellings, species only other tables
\* know).
VolumeSpecies ==
    DOMAIN conifer_constants \cup DOMAIN broadleaf_constants \cup
    { Name("unknown_species", {}), Name("oak", {1}), Name("scots pine", {}),
      Name("red alder", {}), Name("maple", {}) }

\* Mean heights in whole metres and mean diameters in half centimetres, from
\* below the 7 cm threshold up; a stratum without trees has NaN means.
VolumeMeans ==
    { [height |-> RInt(h), dbh |-> Rat(d2, 2)] :
        h \in 0..MaxMeanHeight, d2 \in 12..(2 * MaxMeanDbh) }
    \cup { [height |-> NaN, dbh |-> NaN] }

\* The species_distribution entry of one species.
Allocation(sp, trees) ==
    [s \in {sp} |-> [trees |-> trees, saplings |-> 0, largetrees |-> 0]]

\* A species_distribution without any species.
NoAllocation == [s \in {} |-> [trees |-> 0, saplings |-> 0, largetrees |-> 0]]

\* The tree_stats fields the function reads; diameters all equal, so that the
\* quadratic mean is the mean.
VolumeTreeStats(m, distribution) ==
    [mean_tree_height     |-> m.height,
     mean_dbh_trees       |-> m.dbh,
     quadratic_mean_dbh   |-> m.dbh,
     mean_basal_area      |-> MeanBasalArea(m.dbh),
     species_distribution |-> distribution]

InitVolume ==
    /\ pc = "calculate_tariff_numbers_and_volume"
    /\ species \in VolumeSpecies
    /\ \E m \in VolumeMeans :
          \E distribution \in { Allocation(species, n) : n \in 0..MaxSpeciesTrees }
                                \cup { NoAllocation } :
             tree_stats = VolumeTreeStats(m, distribution)
    /\ tariff_number = None
    /\ multiplication_factor = None
    /\ volume_stats = None
    /\ raised = None
    /\ chain_pc = None
    /\ stem_biomass = None
    /\ crown_biomass = None
    /\ root_biomass = None
    /\ df = None
    /\ percentages = None
    /\ planting_mix = None
    /\ year = None
    /\ number_of_trees = None
    /\ number_of_saplings = None
    /\ number_of_largetrees = None
    /\ species_distribution = None
    /\ remaining_trees = None
    /\ remaining_saplings = None
    /\ remaining_large_trees = None
    /\ index = None
    /\ biomass_stats = None
    /\ num_saplings = None
    /\ mean_sapling_height = None
    /\ is_broadleaf = None
    /\ sapling_carbon_content = None
    /\ carbon_co2_stats = None

NextVolume == CalculateTariffNumbersAndVolume

SpecVolume == InitVolume /\ [][NextVolume]_vars

-----------------------------------------------------------------------------
(* Properties of calculate_tariff_numbers_and_volume (SpecVolume).         *)

VolumeCalled == pc # "calculate_tariff_numbers_and_volume"

VolumeReturned == pc = "done"

\* The mean diameters enumerated.
VolumeDbhs == { Rat(d2, 2) : d2 \in 12..(2 * MaxMeanDbh) }

\* The factor of each of them.
FactorOfDbh == [e \in VolumeDbhs |-> MultiplicationFactor(e)]

\* C3: once the function has been called with a species that is a key of
\* neither conifer_constants nor broadleaf_constants, it has raised ValueError:
\* it has not returned, no tariff number, factor or volume has been computed,
\* whatever the tree_stats.
C3_UnknownSpeciesRaises ==
    (VolumeCalled /\ species \notin DOMAIN conifer_constants
                  /\ species \notin DOMAIN broadleaf_constants)
        => /\ pc = "raised"
           /\ raised = SpeciesNotFound
           /\ tariff_number = None
           /\ multiplication_factor = None
           /\ volume_stats = None

\* C3 witness: 'unknown_species' with finite means and an allocation for it has
\* been passed and the call has ended in the ValueError.
C3_Witness ==
    /\ pc = "raised"
    /\ raised = SpeciesNotFound
    /\ species = Name("unknown_species", {})
    /\ ~IsNaN(tree_stats.mean_tree_height)
    /\ species \in DOMAIN tree_stats.species_distribution

\* C4: when the function returns, the factor it chose lies between 1.00 and
\* 1.30, is 1.30 for a mean DBH of 7 cm and 1.00 from 33 cm on, no smaller mean
\* DBH has a smaller factor and no larger one a larger factor, and the
\* returned total_stem_volume is the mean tree volume times the species' trees
\* times that factor.
C4_FactorNonIncreasing ==
    VolumeReturned =>
        LET d == tree_stats.mean_dbh_trees
            f == multiplication_factor
        IN  /\ RLe(RInt(1), f) /\ RLe(f, Rat(130, 100))
            /\ (d = RInt(7) => f = Rat(130, 100))
            /\ (RLe(RInt(33), d) => f = RInt(1))
            /\ \A e \in VolumeDbhs :
                  /\ RLe(e, d) => RLe(f, FactorOfDbh[e])
                  /\ RLe(d, e) => RLe(FactorOfDbh[e], f)
            /\ volume_stats.total_stem_volume.coeff =
                  RMul(RInt(tree_stats.species_distribution[species].trees), f)

\* C4 witness: a return for a mean DBH of 10.5 cm, in the band of 1.12.
C4_Witness ==
    /\ VolumeReturned
    /\ tree_stats.mean_dbh_trees = Rat(21, 2)
    /\ multiplication_factor = Rat(112, 100)

\* The regression value of a table species, from the formulas of the spec.
RegressionValue ==
    IF species \in DOMAIN conifer_constants
    THEN Regression(conifer_constants[species],
                    tree_stats.mean_tree_height, tree_stats.mean_dbh_trees)
    ELSE Regression(broadleaf_constants[species],
                    tree_stats.mean_tree_height, tree_stats.mean_dbh_trees)

\* C5: when the function returns, the tariff_number returned is an integer t
\* with t <= regression value < t + 1.
C5_TariffNumberIsFloor ==
    VolumeReturned =>
        /\ volume_stats.tariff_number \in Int
        /\ RLe(RInt(volume_stats.tariff_number), RegressionValue)
        /\ RLt(RegressionValue, RInt(volume_stats.tariff_number + 1))

\* C5 witness: a return with a negative regression value that is no integer,
\* where the floor and the truncation toward zero differ.
C5_Witness ==
    /\ VolumeReturned
    /\ RegressionValue.num < 0
    /\ RegressionValue.den # 1
    /\ volume_stats.tariff_number < 0

-----------------------------------------------------------------------------
(* calculate_biomass: the tables.  A coefficient is written as the integer *)
(* its decimals make: the nominal specific gravity in hundredths, the      *)
(* factor b of the crown power law in 10^-10 and its exponent p in 10^-4,  *)
(* every other coefficient in 10^-9.                                       *)

NsgScale == 100

\* nominal_specific_gravity: species -> NSG (Table 5.2.1)
nominal_specific_gravity ==
    Name("scots pine", {1}) :> 42 @@
    Name("corsican pine", {1}) :> 40 @@
    Name("lodgepole pine", {}) :> 39 @@
    Name("maritime pine", {}) :> 41 @@
    Name("weymouth pine", {1}) :> 29 @@
    Name("sitka spruce", {1}) :> 33 @@
    Name("norway spruce", {1}) :> 33 @@
    Name("omorika spruce", {1}) :> 33 @@
    Name("european larch", {1}) :> 45 @@
    Name("japanese larch", {1}) :> 41 @@
    Name("hybrid larch", {}) :> 38 @@
    Name("douglas fir", {1}) :> 41 @@
    Name("western hemlock", {}) :> 36 @@
    Name("western red cedar", {}) :> 31 @@
    Name("lawson cypress", {1}) :> 33 @@
    Name("leyland cypress", {1}) :> 38 @@
    Name("grand fir", {}) :> 30 @@
    Name("noble fir", {}) :> 31 @@
    Name("silver fir", {}) :> 38 @@
    Name("oak", {}) :> 56 @@
    Name("red oak", {}) :> 57 @@
    Name("beech", {}) :> 55 @@
    Name("sycamore", {}) :> 49 @@
    Name("ash", {}) :> 53 @@
    Name("birch", {}) :> 53 @@
    Name("poplar", {}) :> 35 @@
    Name("sweet chestnut", {}) :> 44 @@
    Name("horse chestnut", {}) :> 44 @@
    Name("alder", {}) :> 42 @@
    Name("lime", {}) :> 44 @@
    Name("elm", {}) :> 43 @@
    Name("wych elm", {}) :> 50 @@
    Name("wild cherry", {}) :> 50 @@
    Name("hornbeam", {}) :> 57

\* crown_biomass_coefficients_7_to_50: species -> (b, p) (Table 5.2.2)
crown_biomass_coefficients_7_to_50 ==
    Name("european larch", {1}) :> << 438717, 20291 >> @@
    Name("corsican pine", {1}) :> << 122645, 24767 >> @@
    Name("lodgepole pine", {}) :> << 176287, 24767 >> @@
    Name("scots pine", {1}) :> << 161411, 24767 >> @@
    Name("firs, spruces, cedars, hemlocks", {}) :> << 144620, 24767 >> @@
    Name("douglas fir", {1}) :> << 168602, 24767 >> @@
    Name("beech", {1}) :> << 188154, 24767 >> @@
    Name("oak", {}) :> << 168513, 24767 >>

\* crown_biomass_coefficients_above_50: species -> (a, b) (Table 5.2.3)
crown_biomass_coefficients_above_50 ==
    Name("european larch", {1}) :> << -129046967, 5039011 >> @@
    Name("corsican pine", {1}) :> << -299529453, 9948982 >> @@
    Name("lodgepole pine", {}) :> << -430536496, 14300429 >> @@
    Name("scots pine", {1}) :> << -394205622, 13093685 >> @@
    Name("firs, spruces, cedars, hemlocks", {}) :> << -353197843, 11731597 >> @@
    Name("douglas fir", {1}) :> << -411767824, 13677021 >> @@
    Name("beech", {1}) :> << -459518648, 15263082 >> @@
    Name("oak", {}) :> << -411550464, 13669801 >>

\* root_biomass_coefficients_8: species -> b (Table 5.2.4)
root_biomass_coefficients_8 ==
    Name("western red cedar", {}) :> 10722 @@
    Name("noble fir", {}) :> 10722 @@
    Name("corsican pine", {1}) :> 10722 @@
    Name("norway spruce", {1}) :> 11883 @@
    Name("grand fir", {}) :> 15404 @@
    Name("scots pine", {1}) :> 15404 @@
    Name("western hemlock", {}) :> 15404 @@
    Name("douglas fir", {1}) :> 17326 @@
    Name("european larch", {1}) :> 17326 @@
    Name("lodgepole pine", {}) :> 17326 @@
    Name("sitka spruce", {1}) :> 20454 @@
    Name("red alder", {}) :> 22700

\* root_biomass_coefficients_9: species -> (a, b) (Table 5.2.5)
root_biomass_coefficients_9 ==
    Name("western red cedar", {}) :> << -82602857, 4515233 >> @@
    Name("noble fir", {}) :> << -82602857, 4515233 >> @@
    Name("corsican pine", {1}) :> << -82602857, 4515233 >> @@
    Name("norway spruce", {1}) :> << -91547262, 5004152 >> @@
    Name("grand fir", {}) :> << -118673233, 6486910 >> @@
    Name("scots pine", {1}) :> << -118673233, 6486910 >> @@
    Name("western hemlock", {}) :> << -118673233, 6486910 >> @@
    Name("douglas fir", {1}) :> << -133480423, 7296300 >> @@
    Name("european larch", {1}) :> << -133480423, 7296300 >> @@
    Name("lodgepole pine", {}) :> << -133480423, 7296300 >> @@
    Name("sitka spruce", {1}) :> << -157578701, 8613559 >> @@
    Name("red alder", {}) :> << -174882004, 9559391 >>

\* The exponent of Equation 8, 2.5, in 10^-4.
RootExponent == 25000

-----------------------------------------------------------------------------
(* calculate_biomass: the code.  An amount of biomass is a rational, NaN,  *)
(* an expression times a rational (Scaled) or the sum of two amounts       *)
(* ([sum_of |-> <<x, y>>]); an amount that is zero is the rational 0.      *)

IsRational(x) == "num" \in DOMAIN x

\* x * r for an amount x and a float r.
RECURSIVE TimesAmount(_, _)
TimesAmount(x, r) ==
    IF IsRational(x)
    THEN IF IsNaN(x) \/ IsNaN(r) THEN NaN ELSE RMul(x, r)
    ELSE IF IsNaN(r) THEN NaN
    ELSE IF r.num = 0 THEN RInt(0)
    ELSE IF "coeff" \in DOMAIN x
    THEN IF x.coeff.num = 0 THEN RInt(0) ELSE Scaled(x.unit, RMul(x.coeff, r))
    ELSE [sum_of |-> << TimesAmount(x.sum_of[1], r), TimesAmount(x.sum_of[2], r) >>]

\* x + y for two amounts.
PlusAmount(x, y) ==
    IF (IsRational(x) /\ IsNaN(x)) \/ (IsRational(y) /\ IsNaN(y)) THEN NaN
    ELSE IF x = RInt(0) THEN y
    ELSE IF y = RInt(0) THEN x
    ELSE IF IsRational(x) /\ IsRational(y) THEN RAdd(x, y)
    ELSE [sum_of |-> << x, y >>]

\* dict.get(key, default)
Get(table, key, default) == IF key \in DOMAIN table THEN table[key] ELSE default

\* '>' on floats: False when either side is NaN.
FloatGt(x, y) == ~IsNaN(x) /\ ~IsNaN(y) /\ RLt(y, x)

\* b * (dbh ** p) for a dbh that is a number and not negative: 0 when b is 0
\* (then p is 0 and dbh ** p is 1) or dbh is 0, else the expression.
PowerLaw(b, p, dbh) ==
    IF b = 0 \/ dbh.num = 0 THEN RInt(0)
    ELSE Scaled([b |-> b, p |-> p, dbh |-> dbh], RInt(1))

\* a + (b * dbh): NaN for a NaN dbh whatever a and b, 0 when the sum is 0, else
\* the expression.
Linear(a, b, dbh) ==
    IF IsNaN(dbh) THEN NaN
    ELSE IF a * dbh.den + b * dbh.num = 0 THEN RInt(0)
    ELSE Scaled([a |-> a, b |-> b, dbh |-> dbh], RInt(1))

\* NominalSpecificGravity with the density of oak for a species the table
\* does not hold.
NominalSpecificGravityOrOak(sp) ==
    Rat(Get(nominal_specific_gravity, sp,
            nominal_specific_gravity[Name("oak", {})]), NsgScale)

\* Line 394: nominal_specific_gravity.get(species, 0.0)
NominalSpecificGravity(sp) ==
    Rat(Get(nominal_specific_gravity, sp, 0), NsgScale)

\* CrownBiomass with the lower bound of Equation 6 exclusive: 7 < dbh <= 50.
CrownBiomassAboveSeven(sp, dbh) ==
    IF FloatGt(dbh, RInt(7)) /\ FloatGe(RInt(50), dbh)
    THEN LET c == Get(crown_biomass_coefficients_7_to_50, sp, << 0, 0 >>)
         IN  PowerLaw(c[1], c[2], dbh)
    ELSE IF FloatGt(dbh, RInt(50))
    THEN LET c == Get(crown_biomass_coefficients_above_50, sp, << 0, 0 >>)
         IN  Linear(c[1], c[2], dbh)
    ELSE RInt(0)

\* Lines 400-408: the crown biomass of one tree.
CrownBiomass(sp, dbh) ==
    IF FloatGe(dbh, RInt(7)) /\ FloatGe(RInt(50), dbh)
    THEN LET c == Get(crown_biomass_coefficients_7_to_50, sp, << 0, 0 >>)
         IN  PowerLaw(c[1], c[2], dbh)
    ELSE IF FloatGt(dbh, RInt(50))
    THEN LET c == Get(crown_biomass_coefficients_above_50, sp, << 0, 0 >>)
         IN  Linear(c[1], c[2], dbh)
    ELSE RInt(0)

\* Lines 412-417: the root biomass of one tree.
RootBiomass(sp, dbh) ==
    IF FloatGe(RInt(30), dbh)
    THEN PowerLaw(Get(root_biomass_coefficients_8, sp, 0), RootExponent, dbh)
    ELSE LET c == Get(root_biomass_coefficients_9, sp, << 0, 0 >>)
         IN  Linear(c[1], c[2], dbh)

\* TotalStemBiomass multiplied by the tree count as the crown and the root are.
TotalStemBiomassTimesTrees(stem, num_trees) == TimesAmount(stem, RInt(num_trees))

\* Line 424: total_stem_biomass = stem_biomass
TotalStemBiomass(stem, num_trees) == stem

\* The whole function, lines 393-439.
CalculateBiomass ==
    /\ pc = "calculate_biomass"
    /\ LET nsg   == NominalSpecificGravity(species)
           stem  == TimesAmount(volume_stats.total_stem_volume, nsg)
           crown == CrownBiomass(species, tree_stats.mean_dbh_trees)
           root  == RootBiomass(species, tree_stats.mean_dbh_trees)
       IN  /\ stem_biomass' = stem
           /\ crown_biomass' = crown
           /\ root_biomass' = root
           /\ IF species \notin DOMAIN tree_stats.species_distribution
              THEN \* line 421: species_distribution[species]
                   /\ raised' = "KeyError"
                   /\ pc' = "raised"
                   /\ UNCHANGED biomass_stats
              ELSE LET num_trees   == tree_stats.species_distribution[species].trees
                       total_stem  == TotalStemBiomass(stem, num_trees)
                       total_crown == TimesAmount(crown, RInt(num_trees))
                       total_root  == TimesAmount(root, RInt(num_trees))
                       total_AGB   == PlusAmount(total_stem, total_crown)
                   IN  /\ biomass_stats' =
                            [total_stem_biomass  |-> total_stem,
                             total_crown_biomass |-> total_crown,
                             total_root_biomass  |-> total_root,
                             total_AGB           |-> total_AGB,
                             total_biomass       |-> PlusAmount(total_AGB, total_root)]
                       /\ pc' = "done"
                       /\ UNCHANGED raised
    /\ UNCHANGED << species, tree_stats, tariff_number, multiplication_factor,
                    volume_stats, statsVars >>
    /\ UNCHANGED << num_saplings, mean_sapling_height, is_broadleaf,
                    sapling_carbon_content, carbon_co2_stats, chain_pc >>

-----------------------------------------------------------------------------
(* calculate_biomass: the inputs enumerated.                               *)

\* The largest mean DBH (cm) passed to calculate_biomass.
MaxCrownDbh == 52

\* Species passed: of all three kinds of table ('Scots pine'), of the density
\* and crown tables ('oak'), of the density and root tables ('Sitka spruce'),
\* of the density table only ('beech', 'sycamore'), of the crown tables only
\* ('Beech', 'firs, spruces, cedars, hemlocks'), of the root tables only
\* ('red alder') and of no table ('unknown_species', 'scots pine').
BiomassSpecies ==
    { Name("scots pine", {1}), Name("oak", {}), Name("sitka spruce", {1}),
      Name("beech", {}), Name("sycamore", {}), Name("beech", {1}),
      Name("firs, spruces, cedars, hemlocks", {}), Name("red alder", {}),
      Name("unknown_species", {}), Name("scots pine", {}) }

\* tree_stats of a stratum: mean diameters in half centimetres from below the
\* 7 cm threshold up, and the NaN means of a stratum without trees.
BiomassMeans ==
    { [height |-> RInt(MaxMeanHeight), dbh |-> Rat(d2, 2)] :
        d2 \in 12..(2 * MaxCrownDbh) }
    \cup { [height |-> NaN, dbh |-> NaN] }

\* What lines 197-278 return for a tariff number t, a mean basal area and a
\* tree count, the multiplication factor being that of a mean DBH of 20 cm.
VolumeResult(t, basal_area, trees) ==
    LET mtv == MeanTreeVolume(t, basal_area)
    IN  [tariff_number     |-> t,
         mean_tree_volume  |-> mtv,
         total_stem_volume |->
             Scaled(mtv.unit, RMul(RMul(mtv.coeff, RInt(trees)),
                                   MultiplicationFactor(RInt(20))))]

\* Volume results passed: two tariff numbers, no tree to MaxSpeciesTrees trees.
VolumeResults ==
    { VolumeResult(t, MeanBasalArea(RInt(20)), n) :
        t \in {12, 25}, n \in 0..MaxSpeciesTrees }

InitBiomass ==
    /\ pc = "calculate_biomass"
    /\ species \in BiomassSpecies
    /\ \E m \in BiomassMeans :
          \E distribution \in { Allocation(species, n) : n \in 0..MaxSpeciesTrees }
                                \cup { NoAllocation } :
             tree_stats = VolumeTreeStats(m, distribution)
    /\ volume_stats \in VolumeResults
    /\ tariff_number = None
    /\ multiplication_factor = None
    /\ stem_biomass = None
    /\ crown_biomass = None
    /\ root_biomass = None
    /\ biomass_stats = None
    /\ raised = None
    /\ chain_pc = None
    /\ df = None
    /\ percentages = None
    /\ planting_mix = None
    /\ year = None
    /\ number_of_trees = None
    /\ number_of_saplings = None
    /\ number_of_largetrees = None
    /\ species_distribution = None
    /\ remaining_trees = None
    /\ remaining_saplings = None
    /\ remaining_large_trees = None
    /\ index = None
    /\ num_saplings = None
    /\ mean_sapling_height = None
    /\ is_broadleaf = None
    /\ sapling_carbon_content = None
    /\ carbon_co2_stats = None

NextBiomass == CalculateBiomass

SpecBiomass == InitBiomass /\ [][NextBiomass]_vars

-----------------------------------------------------------------------------
(* calculate_carbon_and_co2_for_trees_and_saplings: the tables.            *)

\* broadleaves (line 457)
broadleaves ==
    { Name("red alder", {}),
      Name("beech", {}),
      Name("oak", {}) }

\* conifers (lines 458-460)
conifers ==
    { Name("western red cedar", {}),
      Name("noble fir", {}),
      Name("corsican pine", {}),
      Name("norway spruce", {}),
      Name("grand fir", {}),
      Name("scots pine", {}),
      Name("western hemlock", {}),
      Name("douglas fir", {}),
      Name("japanese larch", {}),
      Name("lodgepole pine", {}),
      Name("sitka spruce", {}),
      Name("european larch", {}) }

\* The carbon contents are written with 7 decimals (tonnes C per stem).
CarbonScale == 10000000

\* The first and the last height key of both tables, in tenths of a metre
\* (0.6 and 10.0).
FirstHeightKey == 6
LastHeightKey == 100

\* broadleaf_carbon_content_per_stem (lines 480-505): the entries of the keys
\* 0.6, 0.7, ..., 10.0 in this order, times 10^7.
broadleaf_carbon_content_per_stem ==
    <<
       182, 250, 328, 418, 519, 631, 754, 889,
       1036, 1194, 1365, 1547, 1742, 1949, 2168, 2400,
       2645, 2903, 3174, 3459, 3757, 4069, 4395, 4736,
       5090, 5460, 5845, 6245, 6661, 7093, 7541, 8006,
       8488, 8987, 9504, 10039, 10593, 11166, 11759, 12372,
       13005, 13660, 14336, 15034, 15756, 16501, 17270, 18065,
       18885, 19732, 20606, 21509, 22440, 23402, 24396, 25421,
       26480, 27574, 28703, 29870, 31076, 32321, 33608, 34939,
       36315, 37737, 39209, 40731, 42307, 43939, 45628, 47378,
       49192, 51072, 53023, 55046, 57147, 59328, 61594, 63951,
       66401, 68952, 71608, 74375, 77260, 80271, 83414, 86699,
       90134, 93730, 97496, 101445, 105590, 109945, 114525 >>

\* conifer_carbon_content_per_stem (lines 509-534), likewise.
conifer_carbon_content_per_stem ==
    <<
       222, 304, 400, 509, 631, 767, 916, 1080,
       1257, 1449, 1655, 1876, 2111, 2361, 2626, 2906,
       3202, 3513, 3840, 4184, 4543, 4920, 5313, 5724,
       6152, 6598, 7062, 7545, 8046, 8567, 9108, 9669,
       10250, 10853, 11477, 12123, 12792, 13484, 14200, 14940,
       15705, 16496, 17314, 18158, 19031, 19932, 20863, 21825,
       22819, 23845, 24904, 25998, 27128, 28296, 29502, 30747,
       32034, 33363, 34737, 36157, 37625, 39143, 40712, 42336,
       44015, 45753, 47552, 49415, 51344, 53343, 55415, 57564,
       59792, 62105, 64505, 66999, 69589, 72283, 75085, 78002,
       81039, 84204, 87504, 90948, 94544, 98301, 102231, 106345,
       110655, 115174, 119917, 124900, 130142, 135662, 141482 >>

-----------------------------------------------------------------------------
(* calculate_carbon_and_co2_for_trees_and_saplings: the code.              *)

\* A height with two decimals, in hundredths of a metre.
Hundredths(h) == h.num * (100 \div h.den)

\* The heights x.x5 (in hundredths) whose float is greater than the decimal
\* written, or is the decimal itself with an odd digit before the 5: the ones
\* round(x, 1) takes up.  Every other x.x5 is taken down.
HalvesRoundedUp ==
    {
      5, 45, 55, 65, 75, 105, 135, 155, 175, 185,
      235, 245, 275, 285, 295, 335, 345, 375, 385, 395,
      415, 445, 465, 475, 495, 515, 545, 565, 575, 595,
      615, 645, 665, 675, 695, 715, 745, 765, 775, 795,
      805, 815, 855, 865, 875, 905, 915, 955, 965, 975,
      1005, 1015, 1055, 1065, 1075, 1105, 1115, 1155, 1165, 1175 }

\* round(h, 1) of a float h with two decimals, in tenths.
RoundOneDecimal(h) ==
    LET hh == Hundredths(h)
        lo == hh \div 10
    IN  IF hh % 10 < 5 THEN lo
        ELSE IF hh % 10 > 5 THEN lo + 1
        ELSE IF hh \in HalvesRoundedUp THEN lo + 1 ELSE lo

\* round(h) of a float h with two decimals: the nearest integer, x.5 (a float
\* that is the decimal itself) going to the even one.
RoundInteger(h) ==
    LET hh == Hundredths(h)
        lo == hh \div 100
    IN  IF hh % 100 < 50 THEN lo
        ELSE IF hh % 100 > 50 THEN lo + 1
        ELSE IF lo % 2 = 0 THEN lo ELSE lo + 1

\* GetCarbonContent giving a key outside the table the nearest entry
\* instead of the default 0.
GetCarbonContentClamped(table, key) ==
    IF key < FirstHeightKey THEN Rat(table[1], CarbonScale)
    ELSE IF key > LastHeightKey THEN Rat(table[Len(table)], CarbonScale)
    ELSE Rat(table[key - FirstHeightKey + 1], CarbonScale)

\* table.get(key, 0) for a key in tenths of a metre
GetCarbonContent(table, key) ==
    IF key >= FirstHeightKey /\ key <= LastHeightKey
    THEN Rat(table[key - FirstHeightKey + 1], CarbonScale)
    ELSE RInt(0)

\* BroadleafKey of a NaN-free height.
BroadleafKey(h) == RoundOneDecimal(h)

\* ConiferKey rounding as the broadleaf branch does: round(h, 1).
ConiferKeyOneDecimal(h) == RoundOneDecimal(h)

\* The key of line 535, round(mean_sapling_height), in tenths.
ConiferKey(h) == 10 * RoundInteger(h)

\* SpeciesCategory without the case folding: 'species in broadleaves'.
SpeciesCategoryCaseSensitive(sp) ==
    IF sp \in broadleaves THEN "broadleaf"
    ELSE IF sp \in conifers THEN "conifer"
    ELSE "unknown"

\* Lines 463-469: the category of a species, "unknown" where the code raises.
SpeciesCategory(sp) ==
    IF Lower(sp) \in broadleaves THEN "broadleaf"
    ELSE IF Lower(sp) \in conifers THEN "conifer"
    ELSE "unknown"

\* Co2FromCarbon with the ratio inverted: carbon * (12 / 44).
Co2FromCarbonInverted(carbon) == TimesAmount(carbon, Rat(12, 44))

\* carbon * (44 / 12)
Co2FromCarbon(carbon) == TimesAmount(carbon, Rat(44, 12))

\* The whole function, lines 456-555.
CalculateCarbonAndCo2 ==
    /\ pc = "calculate_carbon_and_co2_for_trees_and_saplings"
    /\ LET category == SpeciesCategory(species)
       IN  IF category = "unknown"
           THEN \* line 469
                /\ raised' = SpeciesNotFound
                /\ pc' = "raised"
                /\ UNCHANGED << is_broadleaf, sapling_carbon_content, carbon_co2_stats >>
           ELSE IF category = "conifer" /\ IsNaN(mean_sapling_height)
           THEN \* line 535: round(nan)
                /\ raised' = CannotConvertNaN
                /\ pc' = "raised"
                /\ is_broadleaf' = FALSE
                /\ UNCHANGED << sapling_carbon_content, carbon_co2_stats >>
           ELSE LET total_carbon_trees == TimesAmount(biomass_stats.total_biomass, Rat(1, 2))
                    total_co2_trees == Co2FromCarbon(total_carbon_trees)
                    content ==
                        IF category = "broadleaf"
                        THEN IF IsNaN(mean_sapling_height)
                             THEN RInt(0)   \* round(nan, 1) is nan, no key
                             ELSE GetCarbonContent(broadleaf_carbon_content_per_stem,
                                                   BroadleafKey(mean_sapling_height))
                        ELSE GetCarbonContent(conifer_carbon_content_per_stem,
                                              ConiferKey(mean_sapling_height))
                    total_carbon_saplings == RMul(content, RInt(num_saplings))
                    total_co2_saplings == Co2FromCarbon(total_carbon_saplings)
                IN  /\ is_broadleaf' = (category = "broadleaf")
                    /\ sapling_carbon_content' = content
                    /\ carbon_co2_stats' =
                         [total_carbon_trees    |-> total_carbon_trees,
                          total_co2_trees       |-> total_co2_trees,
                          total_carbon_saplings |-> total_carbon_saplings,
                          total_co2_saplings    |-> total_co2_saplings,
                          total_carbon |-> PlusAmount(total_carbon_trees, total_carbon_saplings),
                          total_co2    |-> PlusAmount(total_co2_trees, total_co2_saplings)]
                    /\ pc' = "done"
                    /\ UNCHANGED raised
    /\ UNCHANGED << species, biomass_stats, num_saplings, mean_sapling_height >>
    /\ UNCHANGED << tree_stats, tariff_number, multiplication_factor, volume_stats,
                    statsVars, biomassVars, chain_pc >>

-----------------------------------------------------------------------------
(* calculate_carbon_and_co2_for_trees_and_saplings: the inputs enumerated. *)

\* The largest sapling count, and the largest mean sapling height in steps of
\* 0.05 m (215 steps: 10.75 m).
MaxSaplings == 2
MaxHeightSteps == 215

\* Species texts: the members of both sets, a species only the tariff tables
\* know and an unknown one; each written in lower case, capitalised and with
\* its first three letters in upper case.
CarbonSpecies ==
    { Name(n.lc, up) :
        n \in broadleaves \cup conifers
                \cup { Name("sycamore", {}), Name("unknown_species", {}) },
        up \in { {}, {1}, {1, 2, 3} } }

\* total_biomass values (oven-dry tonnes): 0, 0.5, 3 and 6.25.
BiomassValues == { RInt(0), Rat(1, 2), RInt(3), Rat(25, 4) }

\* Mean sapling heights 0.00, 0.05, ..., and NaN (a stratum without saplings).
SaplingHeights ==
    { Rat(5 * k, 100) : k \in 0..MaxHeightSteps } \cup { NaN }

InitCarbon ==
    /\ pc = "calculate_carbon_and_co2_for_trees_and_saplings"
    /\ species \in CarbonSpecies
    /\ \E b \in BiomassValues : biomass_stats = [total_biomass |-> b]
    /\ num_saplings \in 0..MaxSaplings
    /\ mean_sapling_height \in SaplingHeights
    /\ is_broadleaf = None
    /\ sapling_carbon_content = None
    /\ carbon_co2_stats = None
    /\ raised = None
    /\ chain_pc = None
    /\ stem_biomass = None
    /\ crown_biomass = None
    /\ root_biomass = None
    /\ tree_stats = None
    /\ tariff_number = None
    /\ multiplication_factor = None
    /\ volume_stats = None
    /\ df = None
    /\ percentages = None
    /\ planting_mix = None
    /\ year = None
    /\ number_of_trees = None
    /\ number_of_saplings = None
    /\ number_of_largetrees = None
    /\ species_distribution = None
    /\ remaining_trees = None
    /\ remaining_saplings = None
    /\ remaining_large_trees = None
    /\ index = None

NextCarbon == CalculateCarbonAndCo2

SpecCarbon == InitCarbon /\ [][NextCarbon]_vars

-----------------------------------------------------------------------------
(* Properties of calculate_carbon_and_co2_for_trees_and_saplings           *)
(* (SpecCarbon).                                                           *)

CarbonCalled == pc # "calculate_carbon_and_co2_for_trees_and_saplings"

CarbonReturned == pc = "done"

Distance(a, b) == IF a < b THEN b - a ELSE a - b

OutcomeCategory ==
    IF raised = SpeciesNotFound THEN "unknown"
    ELSE IF is_broadleaf THEN "broadleaf" ELSE "conifer"

\* C7: once the function has been called with a species whose lower-cased name
\* is in neither set, it has raised the species ValueError and produced no
\* carbon figure; and every spelling of the species that differs only in letter
\* case is classified as the call classified it.
C7_UnknownCategoryRaises ==
    CarbonCalled =>
        /\ (Lower(species) \notin broadleaves /\ Lower(species) \notin conifers) =>
              /\ pc = "raised"
              /\ raised = SpeciesNotFound
              /\ sapling_carbon_content = None
              /\ carbon_co2_stats = None
        /\ \A other \in CarbonSpecies :
              other.lc = species.lc => SpeciesCategory(other) = OutcomeCategory

\* C7 witness: 'Sycamore', a species of the tariff tables that neither set
\* holds, has been passed and the call has ended in the species ValueError.
C7_Witness ==
    /\ pc = "raised"
    /\ raised = SpeciesNotFound
    /\ species = Name("sycamore", {1})

\* C8: when the function returns, total_carbon_trees = 0.5 * total_biomass,
\* each CO2 figure is its carbon figure times 44/12, and the grand totals are
\* the sums of the tree and sapling figures.
C8_CarbonCo2Identities ==
    CarbonReturned =>
        LET r == carbon_co2_stats
        IN  /\ r.total_carbon_trees = RMul(Rat(1, 2), biomass_stats.total_biomass)
            /\ r.total_co2_trees = RMul(r.total_carbon_trees, Rat(44, 12))
            /\ r.total_co2_saplings = RMul(r.total_carbon_saplings, Rat(44, 12))
            /\ r.total_carbon = RAdd(r.total_carbon_trees, r.total_carbon_saplings)
            /\ r.total_co2 = RAdd(r.total_co2_trees, r.total_co2_saplings)

\* C8 witness: a return with a biomass of 6.25 t and two saplings that carry
\* carbon.
C8_Witness ==
    /\ CarbonReturned
    /\ biomass_stats.total_biomass = Rat(25, 4)
    /\ num_saplings = 2
    /\ carbon_co2_stats.total_carbon_saplings.num > 0
    /\ carbon_co2_stats.total_co2.num > 0

\* The sapling figures of a return are all zero.
NoSaplingCarbon ==
    /\ pc = "done"
    /\ sapling_carbon_content = RInt(0)
    /\ carbon_co2_stats.total_carbon_saplings = RInt(0)
    /\ carbon_co2_stats.total_co2_saplings = RInt(0)

\* The call was made with an accepted species and a height that is a number.
AcceptedWithHeight ==
    /\ CarbonCalled
    /\ SpeciesCategory(species) # "unknown"
    /\ ~IsNaN(mean_sapling_height)

\* C11 as stated: for every accepted species and every mean sapling height
\* below 0.6 m or above 10.0 m the function returns with a per-stem carbon of 0
\* and sapling totals of 0.
C11_OutsideRangeIsZero ==
    (/\ AcceptedWithHeight
     /\ \/ Hundredths(mean_sapling_height) < 10 * FirstHeightKey
        \/ Hundredths(mean_sapling_height) > 10 * LastHeightKey)
        => NoSaplingCarbon

\* C11 amended: the function returns with a per-stem carbon of 0 and sapling
\* totals of 0 for a broadleaf whose mean sapling height is below 0.55 m or
\* above 10.05 m and for a conifer whose height is below 0.5 m or above 10.5 m,
\* the heights whose rounded key lies outside the table.
C11_RoundedKeyOutsideRangeIsZero ==
    AcceptedWithHeight =>
        LET hh == Hundredths(mean_sapling_height)
        IN  /\ (/\ SpeciesCategory(species) = "broadleaf"
                /\ (hh < 10 * FirstHeightKey - 5 \/ hh > 10 * LastHeightKey + 5))
                   => NoSaplingCarbon
            /\ (/\ SpeciesCategory(species) = "conifer"
                /\ (hh < 50 \/ hh > 10 * LastHeightKey + 50))
                   => NoSaplingCarbon

\* C11 witness: two conifer saplings of a mean height of 10.55 m, above every
\* key after rounding, were given no carbon.
C11_Witness ==
    /\ NoSaplingCarbon
    /\ ~is_broadleaf
    /\ mean_sapling_height = Rat(1055, 100)
    /\ num_saplings = 2

-----------------------------------------------------------------------------
(* Properties of calculate_biomass (SpecBiomass).                          *)

BiomassCalled == pc # "calculate_biomass"

BiomassReturned == pc = "done"

Zero == RInt(0)

InDensityTable(sp) == sp \in DOMAIN nominal_specific_gravity

InCrownTables(sp) ==
    sp \in DOMAIN crown_biomass_coefficients_7_to_50
        \cup DOMAIN crown_biomass_coefficients_above_50

InRootTables(sp) ==
    sp \in DOMAIN root_biomass_coefficients_8 \cup DOMAIN root_biomass_coefficients_9

\* What C12 says of a call with a species of the allocation: it returns, a
\* species of no density entry has no stem biomass, one of no crown entry no
\* crown biomass, one of no root entry no root biomass, one of no entry at all
\* no biomass; and a component whose table holds the species is not zeroed (it
\* is positive for a stem volume that is not 0, a DBH of 7 to 50 cm for the
\* crown and a DBH of at most 30 cm for the root, and a tree).
MissingCoefficientsGiveZero ==
    LET dbh   == tree_stats.mean_dbh_trees
        trees == tree_stats.species_distribution[species].trees
    IN  /\ BiomassReturned
        /\ ~InDensityTable(species) =>
              /\ stem_biomass = Zero
              /\ biomass_stats.total_stem_biomass = Zero
        /\ ~InCrownTables(species) =>
              /\ crown_biomass = Zero
              /\ biomass_stats.total_crown_biomass = Zero
        /\ ~InRootTables(species) =>
              /\ root_biomass = Zero
              /\ biomass_stats.total_root_biomass = Zero
        /\ (~InDensityTable(species) /\ ~InCrownTables(species)
                                     /\ ~InRootTables(species)) =>
              /\ biomass_stats.total_AGB = Zero
              /\ biomass_stats.total_biomass = Zero
        /\ (InDensityTable(species) /\ volume_stats.total_stem_volume.coeff.num # 0) =>
              biomass_stats.total_stem_biomass # Zero
        /\ (InCrownTables(species) /\ FloatGe(dbh, RInt(7)) /\ FloatGe(RInt(50), dbh)
                                   /\ trees > 0) =>
              biomass_stats.total_crown_biomass # Zero
        /\ (InRootTables(species) /\ FloatGe(RInt(30), dbh) /\ trees > 0) =>
              biomass_stats.total_root_biomass # Zero

\* C12 as stated: the above for every mean DBH and every volume result.
C12_MissingCoefficientsGiveZero_AnyDbh ==
    (BiomassCalled /\ species \in DOMAIN tree_stats.species_distribution)
        => MissingCoefficientsGiveZero

\* C12 amended: the above for every mean DBH that is a number and every volume
\* result.
C12_MissingCoefficientsGiveZero ==
    (/\ BiomassCalled
     /\ species \in DOMAIN tree_stats.species_distribution
     /\ ~IsNaN(tree_stats.mean_dbh_trees))
        => MissingCoefficientsGiveZero

\* C12 witness: a species of no table, allocated two trees of a mean DBH of
\* 20 cm and passed a stem volume that is not 0, was returned no biomass.
C12_Witness ==
    /\ BiomassReturned
    /\ species = Name("unknown_species", {})
    /\ tree_stats.species_distribution[species].trees = 2
    /\ tree_stats.mean_dbh_trees = RInt(20)
    /\ volume_stats.total_stem_volume.coeff.num > 0
    /\ biomass_stats.total_biomass = Zero

\* C13: once calculate_biomass has been called, the crown biomass of one tree
\* is b * DBH^p with (b, p) of the 7-to-50 table for 7 <= DBH <= 50, a + b * DBH
\* with (a, b) of the above-50 table for DBH > 50 (0 in both for a species the
\* table does not hold), and 0 for DBH < 7 whatever the species, the tree count
\* and the volume.
C13_CrownRegimeByMeanDbh ==
    (BiomassCalled /\ ~IsNaN(tree_stats.mean_dbh_trees)) =>
        LET dbh == tree_stats.mean_dbh_trees
            c7  == crown_biomass_coefficients_7_to_50
            c50 == crown_biomass_coefficients_above_50
        IN  /\ (RLe(RInt(7), dbh) /\ RLe(dbh, RInt(50))) =>
                 crown_biomass =
                    IF species \in DOMAIN c7
                    THEN [unit  |-> [b |-> c7[species][1], p |-> c7[species][2],
                                     dbh |-> dbh],
                          coeff |-> RInt(1)]
                    ELSE Zero
            /\ RLt(RInt(50), dbh) =>
                 crown_biomass =
                    IF species \in DOMAIN c50
                    THEN [unit  |-> [a |-> c50[species][1], b |-> c50[species][2],
                                     dbh |-> dbh],
                          coeff |-> RInt(1)]
                    ELSE Zero
            /\ RLt(dbh, RInt(7)) => crown_biomass = Zero

\* C13 witness: oak of a mean DBH of exactly 7 cm was given the power law.
C13_Witness ==
    /\ BiomassReturned
    /\ species = Name("oak", {})
    /\ tree_stats.mean_dbh_trees = RInt(7)
    /\ crown_biomass = [unit  |-> [b |-> 168513, p |-> 24767, dbh |-> RInt(7)],
                        coeff |-> RInt(1)]
    /\ biomass_stats.total_crown_biomass # Zero

-----------------------------------------------------------------------------
(* calculate_and_print_species_biomass_and_carbon: the body of its loop    *)
(* for one species (lines 607-642), the three functions called in turn.    *)

\* Line 613: calculate_biomass is called with the volume result.
CallCalculateBiomass ==
    /\ chain_pc = "calculate_tariff_numbers_and_volume"
    /\ pc = "done"
    /\ pc' = "calculate_biomass"
    /\ chain_pc' = "calculate_biomass"
    /\ UNCHANGED << statsVars, tree_stats, volumeVars, biomassVars, carbonVars, raised >>

\* Lines 610 and 614-616: calculate_carbon_and_co2_for_trees_and_saplings is
\* called with the biomass result, the species' saplings and the stratum's
\* mean sapling height.
CallCalculateCarbon ==
    /\ chain_pc = "calculate_biomass"
    /\ pc = "done"
    /\ pc' = "calculate_carbon_and_co2_for_trees_and_saplings"
    /\ chain_pc' = "calculate_carbon_and_co2_for_trees_and_saplings"
    /\ num_saplings' = tree_stats.species_distribution[species].saplings
    /\ mean_sapling_height' = tree_stats.mean_sapling_height
    /\ UNCHANGED << biomass_stats, is_broadleaf, sapling_carbon_content,
                    carbon_co2_stats >>
    /\ UNCHANGED << statsVars, tree_stats, volumeVars, biomassVars, raised >>

\* Lines 619-642: the species' figures are printed and added to the totals.
PrintAndAggregate ==
    /\ chain_pc = "calculate_carbon_and_co2_for_trees_and_saplings"
    /\ pc = "done"
    /\ chain_pc' = "aggregated"
    /\ UNCHANGED << pc, statsVars, tree_stats, volumeVars, biomassVars, carbonVars,
                    raised >>

\* Species of the loop: every key of the two tariff tables, a species of the
\* carbon sets that the tariff tables do not hold, and an unknown one.
ChainSpecies ==
    DOMAIN conifer_constants \cup DOMAIN broadleaf_constants \cup
    { Name("red alder", {}), Name("unknown_species", {}) }

\* The means of a stratum with trees (all of a DBH above 7 cm), and the NaN
\* means of a stratum without.
ChainMeans ==
    { [height |-> RInt(MaxMeanHeight), dbh |-> Rat(d2, 2)] :
        d2 \in 15..(2 * MaxCrownDbh) }
    \cup { [height |-> NaN, dbh |-> NaN] }

\* The mean sapling heights of a stratum with saplings, and the NaN of one
\* without.
ChainSaplingHeights == { Rat(55, 100), Rat(345, 100), NaN }

\* tree_stats as tree_statistics returns it, for the species of the loop: a
\* stratum without trees allocates no tree, one without saplings no sapling.
ChainTreeStats(sp, m, trees, sapling_height, saplings) ==
    [mean_tree_height     |-> m.height,
     mean_dbh_trees       |-> m.dbh,
     quadratic_mean_dbh   |-> m.dbh,
     mean_basal_area      |-> MeanBasalArea(m.dbh),
     mean_sapling_height  |-> sapling_height,
     species_distribution |->
         [s \in {sp} |-> [trees |-> trees, saplings |-> saplings, largetrees |-> 0]]]

InitChain ==
    /\ pc = "calculate_tariff_numbers_and_volume"
    /\ chain_pc = "calculate_tariff_numbers_and_volume"
    /\ species \in ChainSpecies
    /\ \E m \in ChainMeans, h \in ChainSaplingHeights :
          \E trees \in (IF IsNaN(m.dbh) THEN {0} ELSE 0..MaxSpeciesTrees),
             saplings \in (IF IsNaN(h) THEN {0} ELSE 0..MaxSaplings) :
             tree_stats = ChainTreeStats(species, m, trees, h, saplings)
    /\ tariff_number = None
    /\ multiplication_factor = None
    /\ volume_stats = None
    /\ stem_biomass = None
    /\ crown_biomass = None
    /\ root_biomass = None
    /\ biomass_stats = None
    /\ num_saplings = None
    /\ mean_sapling_height = None
    /\ is_broadleaf = None
    /\ sapling_carbon_content = None
    /\ carbon_co2_stats = None
    /\ raised = None
    /\ df = None
    /\ percentages = None
    /\ planting_mix = None
    /\ year = None
    /\ number_of_trees = None
    /\ number_of_saplings = None
    /\ number_of_largetrees = None
    /\ species_distribution = None
    /\ remaining_trees = None
    /\ remaining_saplings = None
    /\ remaining_large_trees = None
    /\ index = None

NextChain ==
    \/ CalculateTariffNumbersAndVolume
    \/ CallCalculateBiomass
    \/ CalculateBiomass
    \/ CallCalculateCarbon
    \/ CalculateCarbonAndCo2
    \/ PrintAndAggregate

SpecChain == InitChain /\ [][NextChain]_vars

-----------------------------------------------------------------------------
(* Properties of the chain (SpecChain).                                    *)

\* calculate_biomass has returned in the chain.
ChainBiomassReturned ==
    \/ chain_pc = "calculate_biomass" /\ pc = "done"
    \/ chain_pc \in { "calculate_carbon_and_co2_for_trees_and_saplings", "aggregated" }

\* C14: when calculate_biomass has returned for the volume result of the same
\* species, total_stem_biomass is the stem biomass (total_stem_volume times the
\* density) not multiplied by the tree count, total_crown_biomass and
\* total_root_biomass are the per-tree values times the species' tree count,
\* total_AGB = stem + crown and total_biomass = total_AGB + root; and a species
\* allocated no tree has a total_biomass of 0.
C14_BiomassComposition ==
    ChainBiomassReturned =>
        LET r       == biomass_stats
            trees   == tree_stats.species_distribution[species].trees
            volume  == volume_stats.total_stem_volume
            density == IF species \in DOMAIN nominal_specific_gravity
                       THEN Rat(nominal_specific_gravity[species], NsgScale)
                       ELSE Zero
        IN  /\ stem_biomass =
                  IF volume.coeff.num = 0 \/ density = Zero THEN Zero
                  ELSE [unit |-> volume.unit, coeff |-> RMul(volume.coeff, density)]
            /\ r.total_stem_biomass = stem_biomass
            /\ r.total_crown_biomass =
                  IF trees = 0 \/ crown_biomass = Zero THEN Zero
                  ELSE [unit |-> crown_biomass.unit, coeff |-> RInt(trees)]
            /\ r.total_root_biomass =
                  IF trees = 0 \/ root_biomass = Zero THEN Zero
                  ELSE [unit |-> root_biomass.unit, coeff |-> RInt(trees)]
            /\ r.total_AGB = PlusAmount(r.total_stem_biomass, r.total_crown_biomass)
            /\ r.total_biomass = PlusAmount(r.total_AGB, r.total_root_biomass)
            /\ trees = 0 => r.total_biomass = Zero

\* C14 witness: two Scots pines of a mean DBH of 20 cm were returned a stem, a
\* crown and a root biomass, the stem biomass being that of the stem volume of
\* both trees.
C14_Witness ==
    /\ ChainBiomassReturned
    /\ species = Name("scots pine", {1})
    /\ tree_stats.mean_dbh_trees = RInt(20)
    /\ tree_stats.species_distribution[species].trees = 2
    /\ biomass_stats.total_stem_biomass.coeff
          = RMul(RMul(RInt(2), MultiplicationFactor(RInt(20))), Rat(42, 100))
    /\ biomass_stats.total_crown_biomass.coeff = RInt(2)
    /\ biomass_stats.total_root_biomass.coeff = RInt(2)

\* C17 as stated: once calculate_tariff_numbers_and_volume has returned a
\* result for the species, neither calculate_biomass nor
\* calculate_carbon_and_co2_for_trees_and_saplings ends in an error.
C17_ChainCompletes ==
    chain_pc \in { "calculate_biomass",
                   "calculate_carbon_and_co2_for_trees_and_saplings" }
        => pc # "raised"

-----------------------------------------------------------------------------
(* Properties of the remainder loops of tree_statistics (Spec).            *)

\* The function has ended, by returning or by an exception.
Ended == pc \in { "done", "raised" }

\* The loop of the trees has ended / that of the saplings has ended.
TreeLoopEnded == pc \in { "distribute_saplings", "distribute_largetrees", "done" }

SaplingLoopEnded == pc \in { "distribute_largetrees", "done" }

\* C15 as stated: whatever the percentages mapping, the function ends by
\* returning, each of the three remaining counters being 0.
C15_LoopsEndAtZero_AnyMapping ==
    Ended => /\ pc = "done"
             /\ remaining_trees = 0
             /\ remaining_saplings = 0
             /\ remaining_large_trees = 0

\* A mapping that is not empty and whose proportions sum to at most 1.
AllocatableMapping == Len(percentages) > 0 /\ RLe(SumOfProportions, RInt(1))

\* No exception, no counter below 0, and the counter of a loop that has ended
\* is 0 (before line 70 there is no counter).
CountersEndAtZero ==
    IF pc = "tree_statistics" THEN TRUE
    ELSE /\ pc # "raised"
         /\ remaining_trees >= 0
         /\ remaining_saplings >= 0
         /\ remaining_large_trees >= 0
         /\ IF TreeLoopEnded THEN remaining_trees = 0 ELSE TRUE
         /\ IF SaplingLoopEnded THEN remaining_saplings = 0 ELSE TRUE
         /\ IF pc = "done" THEN remaining_large_trees = 0 ELSE TRUE

\* A pass of a loop takes exactly one from the counter of that loop.
PassTakesOne ==
    CASE pc = "distribute_trees" /\ pc' = "distribute_trees"
            -> remaining_trees' = remaining_trees - 1
      [] pc = "distribute_saplings" /\ pc' = "distribute_saplings"
            -> remaining_saplings' = remaining_saplings - 1
      [] pc = "distribute_largetrees" /\ pc' = "distribute_largetrees"
            -> remaining_large_trees' = remaining_large_trees - 1
      [] OTHER -> TRUE

\* The steps the function has left at most: the passes of the loops not yet
\* ended and one step for the end of each, every counter bounded by the rows.
StepsLeft ==
    CASE pc = "tree_statistics" -> 3 * Len(df) + 4
      [] pc = "distribute_trees" ->
            remaining_trees + remaining_saplings + remaining_large_trees + 3
      [] pc = "distribute_saplings" -> remaining_saplings + remaining_large_trees + 2
      [] pc = "distribute_largetrees" -> remaining_large_trees + 1
      [] OTHER -> 0

\* C15 amended: for a percentages mapping that is not empty and whose
\* proportions are not negative and sum to at most 1, and every class count,
\* tree_statistics raises no exception and every step of it lowers the bound
\* StepsLeft on the steps left, which is never negative, so that the loops
\* terminate; each pass of a loop takes exactly one from its counter, no
\* counter is ever negative, and each loop ends with its counter at 0.
C15_LoopsEndAtZero ==
    /\ [](AllocatableMapping =>
             /\ CountersEndAtZero
             /\ StepsLeft >= 0)
    /\ [][AllocatableMapping => (PassTakesOne /\ StepsLeft' < StepsLeft)]_vars

\* C15 witness: with three species at 1/3 each and two saplings, the sapling
\* loop made two passes and the function returned with every counter at 0.
C15_Witness ==
    /\ pc = "done"
    /\ Len(percentages) = 3
    /\ \A i \in 1..3 : percentages[i].percentage = [num |-> 1, den |-> 3]
    /\ number_of_saplings = 2
    /\ species_distribution[percentages[1].species].saplings = 1
    /\ species_distribution[percentages[2].species].saplings = 1
    /\ remaining_saplings = 0

\* C16 as stated: whenever tree_statistics returns for a percentages mapping
\* whose proportions sum to 1, no species is allocated more large trees than
\* trees.
C16_LargeTreesWithinTrees ==
    (Returned /\ SumOfProportions = RInt(1))
        => \A i \in 1..Len(percentages) :
              species_distribution[percentages[i].species].largetrees
                  <= species_distribution[percentages[i].species].trees

=============================================================================
